---------------------------- MODULE Spec2Model ----------------------------
(***************************************************************************)
(* Model of the prerequisite-formula minimizer of src/src/logic.rs:        *)
(* Sum (a clause, a set of symbols), Product (a formula, a sequence of     *)
(* clauses), Products (the implication database), the oracle               *)
(* Products::implies, the fixed-point loop Products::minimize, the         *)
(* combinators and the builder (Product::from_prereq_tree, Visitor), the   *)
(* function minimize that builds and minimizes a database, the             *)
(* SemesterRange bitset of src/src/process.rs, normalize of                *)
(* src/src/normalize.rs and RegistrationRestrictions::add of               *)
(* src/src/restrictions.rs.                                                *)
(*                                                                         *)
(* Clause indices are 0-based as in the source; a Product is a TLA+        *)
(* sequence, so the clause with source index i is product[i + 1].          *)
(* An Option is modelled as a set with at most one element.                *)
(***************************************************************************)
EXTENDS Integers, Sequences, FiniteSets, Bags, TLC

VARIABLES
    products,       \* Products.products : HashMap<Symbol, Product>
    lhs,            \* implies: the argument lhs
    rhs,            \* implies: the argument rhs
    disallow,       \* implies: the argument disallow, {} or {<<sym, i>>}
    seen,           \* implies: the local HashSet seen
    heap,           \* implies: the local BinaryHeap, a bag of candidate sets
    result,         \* implies: "running", or the value returned
    pops,           \* implies: number of heap.pop() calls that returned Some
    pushed,         \* implies: history, how often each set was pushed on the heap
    order,          \* minimize: the iteration order of the HashMap's keys
    pc,             \* minimize: "idle", "loop" or "returned"
    iter,           \* minimize: iterations of the while loop in the current call
    found,          \* minimize: what find_thingy returns at the pending loop test
    runs,           \* minimize: number of calls of minimize started
    input,          \* minimize: history, the database minimize was first called on
    origin,         \* minimize: history, input index of every surviving clause
    everFound,      \* minimize: history, <<symbol, input index>> pairs whose query held
    removed,        \* minimize: history, the removals <<symbol, index, input index>> so far
    afterFirst,     \* minimize: history, the database when the first call returned
    map,            \* SymbolMap.map / Visitor.map : HashMap<Qualification, Symbol>
    next,           \* SymbolMap.next / Visitor.next : u32
    tree,           \* builder: the requirement tree given, or the trees given
    built,          \* builder: the builder called ("none" before) and the Product returned
    output,         \* fn minimize: the (node, tree) pairs returned, by node
    calls,          \* symbol table: history, the calls symbol(q) and what they returned
    operands,       \* combinators: the two Products a and b
    outcome,        \* combinators: the operator applied ("none" before) and the Product returned
    range,          \* SemesterRange.inner : u16
    given,          \* SemesterRange: history, the levels the range was built from
    arg,            \* normalize: the argument tree
    ntree,          \* normalize: the local tree, rebound by every pass
    npc,            \* normalize: "idle", "entry", or the last pass that has run
    addends,        \* RegistrationRestrictions::add: the operands self and other
    total           \* RegistrationRestrictions::add: whether called, and the value returned

oracleVars == <<lhs, rhs, disallow, seen, heap, result, pops, pushed>>
minimizeVars == <<order, pc, iter, found, runs, input, origin, everFound, removed, afterFirst>>
builderVars == <<map, next, tree, built, output, calls>>
algebraVars == <<operands, outcome>>
semesterVars == <<range, given>>
normalizeVars == <<arg, ntree, npc>>
restrictionVars == <<addends, total>>
otherVars == <<builderVars, algebraVars, semesterVars, normalizeVars, restrictionVars>>
vars == <<products, oracleVars, minimizeVars, otherVars>>

---------------------------------------------------------------------------
(* Bounds of the model.                                                    *)

NumSymbols == 3
MaxClauses == 2
MaxSumLen == 2
MaxTotal == 4
MaxOracleTotal == 2
MaxRuns == 2
ChainLen == 5
NumOperandSymbols == 2
MaxOperandLen == 2
NumQuals == 3
TreeDepth == 2
TreeWidth == 2
MaxCalls == 2
MaxListLen == 3

\* u16
Width == 16

\* the semester levels 01 .. 13, GM, GP: SemesterRange::FULL is to(15)
NumLevels == 15

\* SemesterLevel.level of src/src/restrictions.rs: 1 to 15, 14 = GM, 15 = GP
LastLevel == 15

Symbols == 0 .. (NumSymbols - 1)

---------------------------------------------------------------------------
(* Sum                                                                     *)

\* Sum::difference_size
difference_size(a, b) == Cardinality(a \ b)

\* a buggy variant: proper subset
is_subset_proper(a, b) == a \subseteq b /\ a # b

\* a buggy variant: a common symbol is enough
is_subset_overlap(a, b) == a = {} \/ a \cap b # {}

\* Sum::is_subset
is_subset(a, b) == a \subseteq b

\* BTreeSet iteration order: ascending
RECURSIVE SortedSeq(_)
SortedSeq(S) ==
    IF S = {} THEN <<>>
    ELSE LET m == CHOOSE x \in S : \A y \in S : x <= y
         IN <<m>> \o SortedSeq(S \ {m})

\* impl BitOr for &Sum: the union of the two BTreeSets
sum_bitor(a, b) == a \cup b

---------------------------------------------------------------------------
(* Product                                                                 *)

\* Product::and_identity: vec![]
and_identity == <<>>

\* a buggy variant: the empty formula
or_identity_no_clause == <<>>

\* Product::or_identity: vec![Sum::from([])]
or_identity == <<{}>>

\* Product::is_empty
is_empty(p) == Len(p) = 0

\* a buggy variant: the clauses of the right operand are lost
bitand_left_only(a, b) == a

\* impl BitAnd for Product: Vec::append
bitand(a, b) == a \o b

\* Iterator::flatten followed by collect: the rows one after the other
RECURSIVE flatten(_)
flatten(rows) ==
    IF rows = <<>> THEN <<>> ELSE Head(rows) \o flatten(Tail(rows))

\* a buggy variant: the outer loop runs over the right operand
bitor_outer_right(a, b) ==
    flatten([j \in 1 .. Len(b) |-> [i \in 1 .. Len(a) |-> sum_bitor(a[i], b[j])]])

\* impl BitOr for &Product: for every clause of a, in order, its union with
\* every clause of b, in order
bitor(a, b) ==
    flatten([i \in 1 .. Len(a) |-> [j \in 1 .. Len(b) |-> sum_bitor(a[i], b[j])]])

---------------------------------------------------------------------------
(* SymbolMap, Visitor and the builders                                     *)
(*                                                                         *)
(* A symbol table is a record [map, next]; a PrerequisiteTree (and any S   *)
(* of IntoProduct) is a record [kind, q, children] with kind "leaf", "all" *)
(* or "any", q the qualification of a leaf and children the sequence of    *)
(* subtrees of a node.  A builder returns [product, map, next]: the        *)
(* Product and the table it leaves behind.                                 *)

\* PrerequisiteTree::Qualification(q)
Qualification(q) == [kind |-> "leaf", q |-> q, children |-> <<>>]

\* PrerequisiteTree::Conjunctive(conjunctive, children), conjunctive "all" or "any"
Conjunctive(conjunctive, children) == [kind |-> conjunctive, q |-> "", children |-> children]

\* a buggy variant: a fresh symbol for every call
symbol_always_fresh(st, q) ==
    [symbol |-> st.next + 1,
     map |-> [k \in DOMAIN st.map \cup {q} |-> IF k = q THEN st.next + 1 ELSE st.map[k]],
     next |-> st.next + 1]

\* SymbolMap::symbol and Visitor::symbol: entry(q).or_insert_with(next += 1)
symbol(st, q) ==
    IF q \in DOMAIN st.map
    THEN [symbol |-> st.map[q], map |-> st.map, next |-> st.next]
    ELSE [symbol |-> st.next + 1,
          map |-> [k \in DOMAIN st.map \cup {q} |-> IF k = q THEN st.next + 1 ELSE st.map[k]],
          next |-> st.next + 1]

RECURSIVE from_prereq_tree(_, _)
RECURSIVE fold_prereq(_, _, _)

\* the fold of lines 141-142 over the children still to come: the child is built
\* when the fold reaches it, then combined with the accumulator on its left
fold_prereq(conjunctive, children, acc) ==
    IF children = <<>> THEN acc
    ELSE LET elem == from_prereq_tree(Head(children), [map |-> acc.map, next |-> acc.next])
             accum == IF conjunctive = "all"
                      THEN bitand(acc.product, elem.product)
                      ELSE bitor(acc.product, elem.product)
         IN fold_prereq(conjunctive, Tail(children),
                        [product |-> accum, map |-> elem.map, next |-> elem.next])

\* Product::from_prereq_tree
from_prereq_tree(t, st) ==
    IF t.kind = "leaf"
    THEN LET r == symbol(st, t.q)
         IN [product |-> <<{r.symbol}>>, map |-> r.map, next |-> r.next]
    ELSE fold_prereq(t.kind, t.children,
                     [product |-> IF t.kind = "all" THEN and_identity ELSE or_identity,
                      map |-> st.map, next |-> st.next])

\* Visitor::visit_node
visit_node(st, node) ==
    LET r == symbol(st, node)
    IN [product |-> <<{r.symbol}>>, map |-> r.map, next |-> r.next]

RECURSIVE into_product(_, _)
RECURSIVE visit_fold(_, _, _)

\* the folds of visit_all (line 370) and visit_any (line 380) over the trees still
\* to come
visit_fold(conjunctive, trees, acc) ==
    IF trees = <<>> THEN acc
    ELSE LET elem == into_product(Head(trees), [map |-> acc.map, next |-> acc.next])
             accum == IF conjunctive = "all"
                      THEN bitand(acc.product, elem.product)
                      ELSE bitor(acc.product, elem.product)
         IN visit_fold(conjunctive, Tail(trees),
                       [product |-> accum, map |-> elem.map, next |-> elem.next])

\* Visitor::visit_all
visit_all(st, trees) ==
    visit_fold("all", trees, [product |-> and_identity, map |-> st.map, next |-> st.next])

\* a buggy variant: the fold starts from the AND identity
visit_any_from_and_identity(st, trees) ==
    visit_fold("any", trees, [product |-> and_identity, map |-> st.map, next |-> st.next])

\* Visitor::visit_any
visit_any(st, trees) ==
    visit_fold("any", trees, [product |-> or_identity, map |-> st.map, next |-> st.next])

\* IntoProduct::into_product of a requirement tree: a leaf visits its node, a
\* node visits its children
into_product(t, st) ==
    IF t.kind = "leaf" THEN visit_node(st, t.q)
    ELSE IF t.kind = "all" THEN visit_all(st, t.children)
    ELSE visit_any(st, t.children)

---------------------------------------------------------------------------
(* normalize of src/src/normalize.rs, on the PrerequisiteTree records of    *)
(* the builders.  A Conjunctive is the string "any" or "all".              *)

\* the qualifications the trees to normalize are made of, in the ascending order
\* of the derived Ord: a Course before an ExamScore, the scores of one exam in
\* ascending order
NormalizeQuals == <<"MATH 0090", "MATH 0100", "AP Calculus BC 4", "AP Calculus BC 5">>

\* the exam a0 of Qualification::ExamScore(ScoreQualification::ExamScore(a0, _)),
\* "" for every other qualification
exam_of(q) == IF q \in {"AP Calculus BC 4", "AP Calculus BC 5"} THEN "ApCalculusBc" ELSE ""

\* Ord::cmp of Qualification (derived): -1, 0 or 1
qualification_cmp(p, q) ==
    LET rank(x) == CHOOSE i \in 1 .. Len(NormalizeQuals) : NormalizeQuals[i] = x
    IN IF rank(p) < rank(q) THEN -1 ELSE IF rank(p) > rank(q) THEN 1 ELSE 0

RECURSIVE tree_cmp(_, _)
RECURSIVE vec_cmp(_, _)

\* Ord::cmp of Vec<PrerequisiteTree>: lexicographic
vec_cmp(u, v) ==
    IF u = <<>> THEN (IF v = <<>> THEN 0 ELSE -1)
    ELSE IF v = <<>> THEN 1
    ELSE LET c == tree_cmp(Head(u), Head(v))
         IN IF c # 0 THEN c ELSE vec_cmp(Tail(u), Tail(v))

\* Ord::cmp of PrerequisiteTree (derived): the variant Qualification before the
\* variant Conjunctive, Conjunctive::Any before Conjunctive::All, then the children
tree_cmp(a, b) ==
    IF a.kind = "leaf" THEN (IF b.kind = "leaf" THEN qualification_cmp(a.q, b.q) ELSE -1)
    ELSE IF b.kind = "leaf" THEN 1
    ELSE IF a.kind # b.kind THEN (IF a.kind = "any" THEN -1 ELSE 1)
    ELSE vec_cmp(a.children, b.children)

\* one insertion of the stable sort of line 69, sort_by(|a, b| b.cmp(a)): descending
RECURSIVE insert_desc(_, _)
insert_desc(sorted, x) ==
    IF sorted = <<>> THEN <<x>>
    ELSE IF tree_cmp(x, Head(sorted)) > 0 THEN <<x>> \o sorted
    ELSE <<Head(sorted)>> \o insert_desc(Tail(sorted), x)

RECURSIVE sort_desc(_, _)
sort_desc(v, sorted) ==
    IF v = <<>> THEN sorted ELSE sort_desc(Tail(v), insert_desc(sorted, Head(v)))

\* the static EQUIVALENT_MAP of lines 31-43, read from resources/equivalent.txt:
\* here the map of an empty file, no substitution applies
EQUIVALENT_MAP == <<>>

\* equivalent, lines 30-54
RECURSIVE equivalent(_)
equivalent(t) ==
    IF t.kind = "leaf"
    THEN (IF t.q \in DOMAIN EQUIVALENT_MAP THEN EQUIVALENT_MAP[t.q] ELSE t)
    ELSE Conjunctive(t.kind, [k \in 1 .. Len(t.children) |-> equivalent(t.children[k])])

RECURSIVE normalize_flatten(_)
RECURSIVE flatten_children(_, _, _)

\* the for loop of lines 61-67 over the children still to come
flatten_children(conj, children, new_children) ==
    IF children = <<>> THEN new_children
    ELSE LET child == normalize_flatten(Head(children))
         IN flatten_children(conj, Tail(children),
                IF child.kind = conj THEN new_children \o child.children
                ELSE Append(new_children, child))

\* flatten, lines 56-74
normalize_flatten(t) ==
    IF t.kind = "leaf" THEN t
    ELSE Conjunctive(t.kind, sort_desc(flatten_children(t.kind, t.children, <<>>), <<>>))

\* the closure given to dedup_by, lines 83-90
same_bucket(a, b) ==
    \/ a = b
    \/ /\ a.kind = "leaf" /\ b.kind = "leaf"
       /\ exam_of(a.q) # "" /\ exam_of(b.q) # ""
       /\ exam_of(a.q) = exam_of(b.q)

\* Vec::dedup_by: of consecutive elements in the same bucket the first is kept
RECURSIVE dedup_by(_, _)
dedup_by(v, kept) ==
    IF v = <<>> THEN kept
    ELSE IF kept # <<>> /\ same_bucket(Head(v), kept[Len(kept)]) THEN dedup_by(Tail(v), kept)
    ELSE dedup_by(Tail(v), Append(kept, Head(v)))

\* exam_score_overlap, lines 76-94
RECURSIVE exam_score_overlap(_)
exam_score_overlap(t) ==
    IF t.kind = "leaf" THEN t
    ELSE Conjunctive(t.kind,
            dedup_by([k \in 1 .. Len(t.children) |-> exam_score_overlap(t.children[k])], <<>>))

\* unbox_singlets, lines 96-109
RECURSIVE unbox_singlets(_)
unbox_singlets(t) ==
    IF t.kind = "leaf" THEN t
    ELSE LET children == [k \in 1 .. Len(t.children) |-> unbox_singlets(t.children[k])]
         IN IF Len(children) = 1 THEN children[1] ELSE Conjunctive(t.kind, children)

---------------------------------------------------------------------------
(* Semester and SemesterRange of src/src/process.rs.  A u16 is a number    *)
(* below 2^Width, a &str a sequence of characters.                         *)

\* the bits set in a u16
Bits(n) == {k \in 0 .. (Width - 1) : (n \div (2 ^ k)) % 2 = 1}

RECURSIVE FromBits(_)
FromBits(S) ==
    IF S = {} THEN 0
    ELSE LET k == CHOOSE x \in S : TRUE IN (2 ^ k) + FromBits(S \ {k})

\* the operators |, ^, & and ! of u16
bit_or(a, b) == FromBits(Bits(a) \cup Bits(b))
bit_xor(a, b) == FromBits((Bits(a) \ Bits(b)) \cup (Bits(b) \ Bits(a)))
bit_and(a, b) == FromBits(Bits(a) \cap Bits(b))
bit_not(a) == FromBits((0 .. (Width - 1)) \ Bits(a))

\* 1 << k in u16, for a shift k below Width
shl_one(k) == (2 ^ k) % (2 ^ Width)

\* u16::trailing_zeros of a number that is not 0
trailing_zeros(n) == CHOOSE k \in Bits(n) : \A j \in Bits(n) : k <= j

DigitChars == <<"0", "1", "2", "3", "4", "5", "6", "7", "8", "9">>

\* a buggy variant: the level is written without the shift by one
semester_display_unshifted(inner) ==
    IF inner = 13 THEN <<"G", "M">>
    ELSE IF inner = 14 THEN <<"G", "P">>
    ELSE <<DigitChars[(inner \div 10) + 1], DigitChars[(inner % 10) + 1]>>

\* Display for Semester, lines 127-135: "{:02}" of inner + 1 (below 100)
semester_display(inner) ==
    IF inner = 13 THEN <<"G", "M">>
    ELSE IF inner = 14 THEN <<"G", "P">>
    ELSE <<DigitChars[((inner + 1) \div 10) + 1], DigitChars[((inner + 1) % 10) + 1]>>

\* str::parse::<u16> of a string of decimal digits
RECURSIVE parse_digits(_, _)
parse_digits(chars, acc) ==
    IF chars = <<>> THEN acc
    ELSE parse_digits(Tail(chars),
            10 * acc + ((CHOOSE i \in 1 .. 10 : DigitChars[i] = Head(chars)) - 1))

\* FromStr for Semester, lines 137-149: the field inner of the Semester
semester_from_str(chars) ==
    LET semester_number ==
            IF chars = <<"G", "M">> THEN 14
            ELSE IF chars = <<"G", "P">> THEN 15
            ELSE IF chars = <<"F", "2">> THEN 2
            ELSE parse_digits(chars, 0)
    IN semester_number - 1

\* SemesterRange::to, lines 164-166
to(semester) == (shl_one(semester) - 1) % (2 ^ Width)

\* SemesterRange::FULL and SemesterRange::EMPTY, lines 159-160
FULL == to(NumLevels)
EMPTY == to(0)

\* SemesterRange::add, lines 168-170
add(inner, semester) == bit_or(inner, shl_one(semester))

\* SemesterRange::complement, lines 173-175
complement(inner) == bit_xor(inner, FULL)

\* SemesterRange::intersection, lines 177-179
intersection(inner, other) == bit_and(inner, other)

\* SemesterRange::semesters, lines 181-189: the Semesters the iterator yields
RECURSIVE semesters(_)
semesters(inner) ==
    IF inner = 0 THEN <<>>
    ELSE LET semester == trailing_zeros(inner)
         IN <<semester>> \o semesters(bit_and(inner, bit_not(shl_one(semester))))

\* Regex::split with the pattern ", | or " (line 216): the pieces between the
\* matches, cur being the piece under way
RECURSIVE split(_, _)
split(chars, cur) ==
    IF chars = <<>> THEN <<cur>>
    ELSE IF Len(chars) >= 2 /\ SubSeq(chars, 1, 2) = <<",", " ">>
         THEN <<cur>> \o split(SubSeq(chars, 3, Len(chars)), <<>>)
    ELSE IF Len(chars) >= 4 /\ SubSeq(chars, 1, 4) = <<" ", "o", "r", " ">>
         THEN <<cur>> \o split(SubSeq(chars, 5, Len(chars)), <<>>)
    ELSE split(Tail(chars), Append(cur, Head(chars)))

\* the fold of line 220 over the pieces still to come
RECURSIVE fold_add(_, _)
fold_add(pieces, accum) ==
    IF pieces = <<>> THEN accum
    ELSE fold_add(Tail(pieces), add(accum, semester_from_str(Head(pieces))))

\* TryFrom<&str> for SemesterRange, lines 213-222
try_from(string) == fold_add(split(string, <<>>), EMPTY)

\* Display for SemesterRange, lines 224-233, over the Semesters still to come
RECURSIVE display_from(_, _)
display_from(sems, sep) ==
    IF sems = <<>> THEN <<>>
    ELSE sep \o semester_display(Head(sems)) \o display_from(Tail(sems), <<",", " ">>)

range_display(inner) == display_from(semesters(inner), <<>>)

---------------------------------------------------------------------------
(* RegistrationRestrictions of src/src/restrictions.rs.  A SemesterLevel   *)
(* is its field level, a SemesterRange of this file a record [start, end], *)
(* a SemesterRestriction a record [tag, range] with tag "Must" or          *)
(* "CannotBe".                                                             *)

\* Option::or
option_or(a, b) == IF a # {} THEN a ELSE b

\* SemesterRange::intersection, lines 152-159
range_intersection(s, o) ==
    LET start == IF s.start >= o.start THEN s.start ELSE o.start
        end == IF s.end <= o.end THEN s.end ELSE o.end
    IN IF start < end THEN {[start |-> start, end |-> end]} ELSE {}

\* SemesterRestriction::intersection, lines 135-143
restriction_intersection(s, o) ==
    IF s.tag = "Must" /\ o.tag = "Must"
    THEN {[tag |-> "Must", range |-> r] : r \in range_intersection(s.range, o.range)}
    ELSE IF s.tag = "CannotBe" /\ o.tag = "CannotBe"
    THEN {[tag |-> "CannotBe", range |-> r] : r \in range_intersection(s.range, o.range)}
    ELSE {}

\* impl Add for RegistrationRestrictions, lines 55-74
restrictions_add(self, other) ==
    [program_restrictions |-> option_or(self.program_restrictions, other.program_restrictions),
     level_restrictions |-> option_or(self.level_restrictions, other.level_restrictions),
     semester_restriction |->
        IF self.semester_restriction # {}
        THEN (IF other.semester_restriction # {}
              THEN restriction_intersection(CHOOSE s \in self.semester_restriction : TRUE,
                                            CHOOSE o \in other.semester_restriction : TRUE)
              ELSE self.semester_restriction)
        ELSE other.semester_restriction,
     override_required |-> self.override_required \/ other.override_required,
     prerequisite_restrictions |->
        option_or(self.prerequisite_restrictions, other.prerequisite_restrictions),
     informal_prerequisite |-> self.informal_prerequisite \/ other.informal_prerequisite]

---------------------------------------------------------------------------
(* Products                                                                *)

\* Products::get(symbol).is_some()
has_entry(P, s) == s \in DOMAIN P

\* a buggy variant: rhs is not consulted
dead_end_ignoring_rhs(P, r, s) == has_entry(P, s) /\ Len(P[s]) = 0

\* the symbols a child may not contain (lines 314-316): absent from rhs, and with
\* an entry whose product is empty
dead_end(P, r, s) == s \notin r /\ has_entry(P, s) /\ Len(P[s]) = 0

\* a buggy variant: the substituted symbol is not removed
make_child_keep(cand, sym, sum) == cand \cup sum

\* the child built at lines 309-311
make_child(cand, sym, sum) == (cand \ {sym}) \cup sum

\* a buggy variant: the seen set is not consulted
child_valid_no_seen(P, r, dis, seenS, child, sym, i) ==
    /\ <<sym, i>> \notin dis
    /\ ~ \E s \in child : dead_end(P, r, s)

\* a buggy variant: the forbidden clause is not excluded
child_valid_no_disallow(P, r, dis, seenS, child, sym, i) ==
    /\ child \notin seenS
    /\ ~ \E s \in child : dead_end(P, r, s)

\* a buggy variant: every clause of the forbidden symbol is excluded
child_valid_symbol_only(P, r, dis, seenS, child, sym, i) ==
    /\ \A d \in dis : d[1] # sym
    /\ child \notin seenS
    /\ ~ \E s \in child : dead_end(P, r, s)

\* child_valid, lines 312-316
child_valid(P, r, dis, seenS, child, sym, i) ==
    /\ <<sym, i>> \notin dis
    /\ child \notin seenS
    /\ ~ \E s \in child : dead_end(P, r, s)

\* a buggy variant: only the first clause of every formula is substituted
RECURSIVE expand_pairs_first_clause(_, _)
expand_pairs_first_clause(P, syms) ==
    IF syms = <<>> THEN <<>>
    ELSE LET sym == Head(syms)
             here == IF has_entry(P, sym) /\ Len(P[sym]) > 0
                     THEN <<<<sym, 0>>>>
                     ELSE <<>>
         IN here \o expand_pairs_first_clause(P, Tail(syms))

\* the pairs (sym, i) visited by the two nested for loops, in order
RECURSIVE expand_pairs_from(_, _)
expand_pairs_from(P, syms) ==
    IF syms = <<>> THEN <<>>
    ELSE LET sym == Head(syms)
             here == IF has_entry(P, sym)
                     THEN [k \in 1 .. Len(P[sym]) |-> <<sym, k - 1>>]
                     ELSE <<>>
         IN here \o expand_pairs_from(P, Tail(syms))

expand_pairs(P, cand) == expand_pairs_from(P, SortedSeq(cand))

\* the body of the two for loops over one popped candidate: st = [seen, heap, pushed]
RECURSIVE expand_loop(_, _, _, _, _, _)
expand_loop(P, r, dis, cand, pairs, st) ==
    IF pairs = <<>> THEN st
    ELSE LET sym == Head(pairs)[1]
             i == Head(pairs)[2]
             child == make_child(cand, sym, P[sym][i + 1])
             ok == child_valid(P, r, dis, st.seen, child, sym, i)
             after == IF ok
                      THEN [seen |-> st.seen \cup {child},
                            heap |-> st.heap (+) SetToBag({child}),
                            pushed |-> st.pushed (+) SetToBag({child})]
                      ELSE st
         IN expand_loop(P, r, dis, cand, Tail(pairs), after)

expand(P, r, dis, cand, st) == expand_loop(P, r, dis, cand, expand_pairs(P, cand), st)

\* a buggy variant: the heap pops in no particular order
heap_top_any(h, r) == BagToSet(h)

\* the candidates BinaryHeap::pop may return: those of least rhs_difference
\* (Reverse in a max-heap); the order among equal keys is the heap's own
heap_top(h, r) ==
    {c \in BagToSet(h) :
        \A d \in BagToSet(h) : difference_size(c, r) <= difference_size(d, r)}

\* the state of the locals after lines 297-298
implies_start(l) ==
    [seen |-> {l}, heap |-> SetToBag({l}), pushed |-> SetToBag({l})]

\* Products::implies run to completion, as minimize calls it
RECURSIVE implies_loop(_, _, _, _)
implies_loop(P, r, dis, st) ==
    IF BagToSet(st.heap) = {} THEN FALSE
    ELSE LET cand == CHOOSE c \in heap_top(st.heap, r) : TRUE
             rest == [st EXCEPT !.heap = st.heap (-) SetToBag({cand})]
         IN IF is_subset(cand, r) THEN TRUE
            ELSE implies_loop(P, r, dis, expand(P, r, dis, cand, rest))

implies(P, l, r, dis) == implies_loop(P, r, dis, implies_start(l))

\* a buggy variant: the index passed as forbidden is one too large
query_forbid_next(P, s, b) == implies(P, {s}, P[s][b + 1], {<<s, b + 1>>})

\* a buggy variant: no clause is forbidden
query_nothing_forbidden(P, s, b) == implies(P, {s}, P[s][b + 1], {})

\* the query of line 244 for the clause at index b of symbol s
query(P, s, b) == implies(P, {s}, P[s][b + 1], {<<s, b>>})

\* a buggy variant: only the first clause of a formula is examined
first_found_head_only(P, s) ==
    IF Len(P[s]) > 0 /\ query(P, s, 0) THEN {<<s, 0>>} ELSE {}

\* a buggy variant: the queries are answered against the database minimize was
\* called on, not against the database as it is now
first_found_stale(P, s) ==
    LET B == {b \in 0 .. (Len(P[s]) - 1) : query(input, s, b)}
    IN IF B = {} THEN {}
       ELSE {<<s, CHOOSE b \in B : \A c \in B : b <= c>>}

\* lines 242-245: the first clause index of symbol s whose query holds, if any
first_found(P, s) ==
    LET B == {b \in 0 .. (Len(P[s]) - 1) : query(P, s, b)}
    IN IF B = {} THEN {}
       ELSE {<<s, CHOOSE b \in B : \A c \in B : b <= c>>}

\* find_thingy, lines 239-247: find_map over the keys in iteration order
RECURSIVE find_thingy(_, _)
find_thingy(P, ord) ==
    IF ord = <<>> THEN {}
    ELSE LET f == first_found(P, Head(ord))
         IN IF f # {} THEN f ELSE find_thingy(P, Tail(ord))

\* a buggy variant: the clause is inserted a second time instead of removed
vec_remove_dup(v, b) == SubSeq(v, 1, b + 1) \o SubSeq(v, b + 1, Len(v))

\* a buggy variant: the clause is emptied and stays in the formula
vec_remove_clear(v, b) == [v EXCEPT ![b + 1] = {}]

\* a buggy variant: Vec::swap_remove, the last clause takes the place of the
\* removed one
vec_swap_remove(v, b) ==
    IF b + 1 = Len(v) THEN SubSeq(v, 1, b)
    ELSE SubSeq(v, 1, b) \o <<v[Len(v)]>> \o SubSeq(v, b + 2, Len(v) - 1)

\* a buggy variant: nothing is removed
vec_remove_none(v, b) == v

\* Vec::remove(b), line 250
vec_remove(v, b) == SubSeq(v, 1, b) \o SubSeq(v, b + 2, Len(v))

\* a buggy variant: if let instead of while let, one removal per call
loop_enters_once(thingy, n) == thingy # {} /\ n = 0

\* the condition of the while let of line 249, at the n-th iteration of a call
loop_enters(thingy, n) == thingy # {}

\* Products::minimize run to completion on a copy of the database
RECURSIVE minimize_run(_, _, _)
minimize_run(P, ord, n) ==
    LET thingy == find_thingy(P, ord)
    IN IF loop_enters(thingy, n)
       THEN LET a == (CHOOSE t \in thingy : TRUE)[1]
                b == (CHOOSE t \in thingy : TRUE)[2]
            IN minimize_run([P EXCEPT ![a] = vec_remove(P[a], b)], ord, n + 1)
       ELSE P

---------------------------------------------------------------------------
(* The inputs the model draws from.                                        *)

Sums == SUBSET Symbols

\* the clauses of the input databases
InputSums == {c \in Sums : Cardinality(c) <= MaxSumLen}

ProductsOfLen(n) == [1 .. n -> InputSums]

AllProducts == UNION {ProductsOfLen(n) : n \in 0 .. MaxClauses}

RECURSIVE SumLen(_, _)
SumLen(P, S) ==
    IF S = {} THEN 0
    ELSE LET s == CHOOSE x \in S : TRUE
         IN Len(P[s]) + SumLen(P, S \ {s})

\* number of clauses of a database
TotalClauses(P) == SumLen(P, DOMAIN P)

AllDatabases == UNION {[K -> AllProducts] : K \in SUBSET Symbols}

Databases(maxTotal) == {P \in AllDatabases : TotalClauses(P) <= maxTotal}

\* the databases of the shape of the tests foo, bar and quoo (lines 422-487): every
\* key has exactly one clause, of exactly one symbol; chains and cycles are among them
EdgeDatabases ==
    UNION {[K -> {<<{t}>> : t \in Symbols}] : K \in SUBSET Symbols}

OracleDatabases == Databases(MaxOracleTotal) \cup EdgeDatabases

MinimizeDatabases == Databases(MaxTotal)

\* the iteration orders a HashMap over the keys K may have
KeyOrders(K) ==
    {o \in [1 .. Cardinality(K) -> K] : \A i, j \in DOMAIN o : o[i] = o[j] => i = j}

\* every (symbol, clause index) position of a database
Positions(P) == UNION {{<<s, i>> : i \in 0 .. (Len(P[s]) - 1)} : s \in DOMAIN P}

---------------------------------------------------------------------------
(* Products::implies as a state machine: one action per iteration of the   *)
(* while loop of lines 300-325.                                            *)

OracleIdle ==
    /\ lhs = {} /\ rhs = {} /\ disallow = {}
    /\ seen = {} /\ heap = EmptyBag /\ pushed = EmptyBag
    /\ result = "idle" /\ pops = 0

MinimizeIdle ==
    /\ order = <<>> /\ pc = "idle" /\ iter = 0 /\ found = {} /\ runs = 0
    /\ input = <<>> /\ origin = <<>> /\ everFound = {}
    /\ removed = <<>> /\ afterFirst = <<>>

BuilderIdle ==
    /\ map = <<>> /\ next = 0 /\ tree = <<>>
    /\ built = [by |-> "none", product |-> <<>>]
    /\ output = <<>> /\ calls = <<>>

AlgebraIdle == operands = <<>> /\ outcome = [op |-> "none", value |-> <<>>]

SemesterIdle == range = 0 /\ given = {}

NormalizeIdle == arg = <<>> /\ ntree = <<>> /\ npc = "idle"

RestrictionIdle == addends = <<>> /\ total = [called |-> FALSE, value |-> <<>>]

OtherIdle ==
    BuilderIdle /\ AlgebraIdle /\ SemesterIdle /\ NormalizeIdle /\ RestrictionIdle

\* lines 297-298: the call implies(lhs, rhs, disallow) on a database
InitOracleOn(dbs, lefts, rights, forbid) ==
    /\ products \in dbs
    /\ lhs \in lefts
    /\ rhs \in rights
    /\ disallow \in {{}} \cup {{p} : p \in IF forbid THEN Positions(products) ELSE {}}
    /\ seen = implies_start(lhs).seen
    /\ heap = implies_start(lhs).heap
    /\ pushed = implies_start(lhs).pushed
    /\ result = "running"
    /\ pops = 0
    /\ MinimizeIdle
    /\ OtherIdle

InitOracle == InitOracleOn(OracleDatabases, Sums, Sums, TRUE)

OracleFrame == UNCHANGED <<products, lhs, rhs, disallow, minimizeVars, otherVars>>

\* lines 300-304: pop a candidate that is a subset of rhs, return true
ImpliesReturnTrue ==
    /\ result = "running"
    /\ \E cand \in heap_top(heap, rhs) :
        /\ is_subset(cand, rhs)
        /\ heap' = heap (-) SetToBag({cand})
        /\ pops' = pops + 1
        /\ result' = "true"
        /\ UNCHANGED <<seen, pushed>>
    /\ OracleFrame

\* lines 300-323: pop a candidate that is no subset of rhs, push its valid children
ImpliesExpand ==
    /\ result = "running"
    /\ \E cand \in heap_top(heap, rhs) :
        /\ ~ is_subset(cand, rhs)
        /\ LET st == expand(products, rhs, disallow, cand,
                            [seen |-> seen,
                             heap |-> heap (-) SetToBag({cand}),
                             pushed |-> pushed])
           IN /\ seen' = st.seen
              /\ heap' = st.heap
              /\ pushed' = st.pushed
        /\ pops' = pops + 1
        /\ UNCHANGED result
    /\ OracleFrame

\* lines 300, 327: the heap is empty, return false
ImpliesReturnFalse ==
    /\ result = "running"
    /\ BagToSet(heap) = {}
    /\ result' = "false"
    /\ UNCHANGED <<seen, heap, pushed, pops>>
    /\ OracleFrame

NextOracle == ImpliesReturnTrue \/ ImpliesExpand \/ ImpliesReturnFalse

SpecOracle == InitOracle /\ [][NextOracle]_vars

\* the chain of the test bar (lines 432-438) over the symbols of ch, in that order
ChainDatabase(ch) ==
    [s \in {ch[k] : k \in 1 .. (Len(ch) - 1)} |->
        <<{ch[(CHOOSE k \in 1 .. (Len(ch) - 1) : ch[k] = s) + 1]}>>]

ChainSymbols == 0 .. ChainLen

ChainDatabases == {ChainDatabase(ch) : ch \in KeyOrders(ChainSymbols)}

InitChain ==
    InitOracleOn(ChainDatabases, {{s} : s \in ChainSymbols}, {{s} : s \in ChainSymbols}, FALSE)

SpecChain == InitChain /\ [][NextOracle]_vars

\* the symbols of the tests quoo, quoo1 and quoo2 (lines 477-513): the keys and
\* one symbol more, without entry
QuooSymbols == 0 .. NumSymbols

\* the database of the test quoo1 and that of the test quoo2
Quoo1 == (0 :> <<{1}>>) @@ (1 :> <<{2}>>) @@ (2 :> <<{3}, {0}>>)
Quoo2 == (0 :> <<{1}>>) @@ (1 :> <<{2}>>) @@ (2 :> <<{0}, {3}>>)

\* databases of the shape of the tests quoo, quoo1 and quoo2: every key leads to
\* one symbol, and the last key may have a second clause of one symbol, before
\* or after the first; cycles with and without an exit are among them
CycleExitDatabases(keys, syms) ==
    LET edges == [keys -> {<<{t}>> : t \in syms}]
        last == CHOOSE k \in keys : \A j \in keys : j <= k
    IN edges \cup
       {[P EXCEPT ![last] = IF e[2] THEN <<{e[1]}>> \o P[last] ELSE P[last] \o <<{e[1]}>>] :
            P \in edges, e \in syms \X BOOLEAN}

InitCycleExit ==
    InitOracleOn(CycleExitDatabases(Symbols, QuooSymbols),
                 {{s} : s \in QuooSymbols}, {{s} : s \in QuooSymbols}, FALSE)

SpecCycleExit == InitCycleExit /\ [][NextOracle]_vars

---------------------------------------------------------------------------
(* The combinators applied to two formulas.                                *)

OperandSymbols == 1 .. NumOperandSymbols

OperandProducts == UNION {[1 .. n -> SUBSET OperandSymbols] : n \in 0 .. MaxOperandLen}

\* the operands of the distribution example: [{1,2}] and [{2,3,4}]
DistributionExample == [a |-> <<{1, 2}>>, b |-> <<{2, 3, 4}>>]

InitAlgebra ==
    /\ operands \in [a : OperandProducts, b : OperandProducts] \cup {DistributionExample}
    /\ outcome = [op |-> "none", value |-> <<>>]
    /\ products = <<>>
    /\ OracleIdle /\ MinimizeIdle /\ BuilderIdle /\ SemesterIdle
    /\ NormalizeIdle /\ RestrictionIdle

AlgebraFrame ==
    UNCHANGED <<products, oracleVars, minimizeVars, builderVars, semesterVars, operands,
                normalizeVars, restrictionVars>>

\* a & b, lines 167-173
ApplyBitAnd ==
    /\ outcome.op = "none"
    /\ outcome' = [op |-> "and", value |-> bitand(operands.a, operands.b)]
    /\ AlgebraFrame

\* &a | &b, lines 175-185
ApplyBitOr ==
    /\ outcome.op = "none"
    /\ outcome' = [op |-> "or", value |-> bitor(operands.a, operands.b)]
    /\ AlgebraFrame

NextAlgebra == ApplyBitAnd \/ ApplyBitOr

SpecAlgebra == InitAlgebra /\ [][NextAlgebra]_vars

---------------------------------------------------------------------------
(* The symbol table and the builders as a state machine: calls of symbol   *)
(* on one table, and one call of a builder on a requirement tree with that *)
(* table.                                                                  *)

QualNames == <<"A", "B", "C", "D", "E", "F">>

Quals == {QualNames[k] : k \in 1 .. NumQuals}

RECURSIVE TreesOfDepth(_, _)
TreesOfDepth(Q, d) ==
    IF d = 0 THEN {Qualification(q) : q \in Q}
    ELSE {Qualification(q) : q \in Q} \cup
         {Conjunctive(c[1], c[2]) :
            c \in {"all", "any"} \X
                  UNION {[1 .. n -> TreesOfDepth(Q, d - 1)] : n \in 0 .. TreeWidth}}

\* the requirement trees over the qualifications Q
TreesOver(Q) == TreesOfDepth(Q, TreeDepth)

InitBuilder ==
    /\ tree \in TreesOver(Quals)
    /\ map = <<>> /\ next = 0
    /\ built = [by |-> "none", product |-> <<>>]
    /\ output = <<>> /\ calls = <<>>
    /\ products = <<>>
    /\ OracleIdle /\ MinimizeIdle /\ AlgebraIdle /\ SemesterIdle
    /\ NormalizeIdle /\ RestrictionIdle

BuilderFrame ==
    UNCHANGED <<products, oracleVars, minimizeVars, algebraVars, semesterVars,
                normalizeVars, restrictionVars>>

\* a call map.symbol(q), lines 194-200 and 352-357
SymbolCall ==
    /\ Len(calls) < MaxCalls
    /\ \E q \in Quals :
          LET r == symbol([map |-> map, next |-> next], q)
          IN /\ map' = r.map
             /\ next' = r.next
             /\ calls' = Append(calls, [q |-> q, symbol |-> r.symbol,
                                        known |-> q \in DOMAIN map,
                                        before |-> next, after |-> r.next])
    /\ UNCHANGED <<tree, built, output>>
    /\ BuilderFrame

\* a call Product::from_prereq_tree(tree, map), lines 129-146
BuildFromPrereqTree ==
    /\ built.by = "none"
    /\ LET r == from_prereq_tree(tree, [map |-> map, next |-> next])
       IN /\ built' = [by |-> "from_prereq_tree", product |-> r.product]
          /\ map' = r.map
          /\ next' = r.next
    /\ UNCHANGED <<tree, output, calls>>
    /\ BuilderFrame

\* a call tree.into_product(visitor), lines 359-381
BuildIntoProduct ==
    /\ built.by = "none"
    /\ LET r == into_product(tree, [map |-> map, next |-> next])
       IN /\ built' = [by |-> "into_product", product |-> r.product]
          /\ map' = r.map
          /\ next' = r.next
    /\ UNCHANGED <<tree, output, calls>>
    /\ BuilderFrame

NextBuilder == SymbolCall \/ BuildFromPrereqTree \/ BuildIntoProduct

SpecBuilder == InitBuilder /\ [][NextBuilder]_vars

---------------------------------------------------------------------------
(* A SemesterRange value as a state machine: built by parsing a text, by   *)
(* to, by add and by complement.  A level is named by its position 0 .. 14 *)
(* in 01, ..., 13, GM, GP.                                                 *)

Levels == 0 .. (NumLevels - 1)

\* the texts of the levels, as the registrar writes them
LevelTexts ==
    <<<<"0", "1">>, <<"0", "2">>, <<"0", "3">>, <<"0", "4">>, <<"0", "5">>,
      <<"0", "6">>, <<"0", "7">>, <<"0", "8">>, <<"0", "9">>, <<"1", "0">>,
      <<"1", "1">>, <<"1", "2">>, <<"1", "3">>, <<"G", "M">>, <<"G", "P">>>>

\* the text of the list ls of levels, delims[k] between its k-th and its next level
RECURSIVE JoinText(_, _)
JoinText(ls, delims) ==
    IF Len(ls) = 0 THEN <<>>
    ELSE IF Len(ls) = 1 THEN LevelTexts[ls[1] + 1]
    ELSE LevelTexts[ls[1] + 1] \o delims[1] \o JoinText(Tail(ls), Tail(delims))

\* the levels of the text of the tests semseter_range and semseter_range2 (line 273)
TestLevels == <<4, 5, 6, 7, 8, 9, 10, 11, 12>>

\* the non-empty lists of levels a text may hold, repetitions and any order
\* included, and the list of the tests
LevelLists == UNION {[1 .. n -> Levels] : n \in 1 .. MaxListLen} \cup {TestLevels}

Delimiters == {<<",", " ">>, <<" ", "o", "r", " ">>}

InitSemester ==
    /\ range = EMPTY
    /\ given = {}
    /\ products = <<>>
    /\ OracleIdle /\ MinimizeIdle /\ BuilderIdle /\ AlgebraIdle
    /\ NormalizeIdle /\ RestrictionIdle

SemesterFrame ==
    UNCHANGED <<products, oracleVars, minimizeVars, builderVars, algebraVars,
                normalizeVars, restrictionVars>>

\* SemesterRange::try_from(text), lines 213-222; the value does not depend on
\* the range held before, so the call is made on the empty range only
ParseRange ==
    /\ range = EMPTY /\ given = {}
    /\ \E ls \in LevelLists : \E delims \in [1 .. (Len(ls) - 1) -> Delimiters] :
          /\ range' = try_from(JoinText(ls, delims))
          /\ given' = {ls[k] : k \in 1 .. Len(ls)}
    /\ SemesterFrame

\* range.add(Semester::from_str(text)), lines 168-170
AddLevel ==
    /\ \E l \in Levels :
          /\ range' = add(range, semester_from_str(LevelTexts[l + 1]))
          /\ given' = given \cup {l}
    /\ SemesterFrame

\* SemesterRange::to(n), lines 164-166
ToLevel ==
    /\ \E n \in 0 .. NumLevels :
          /\ range' = to(n)
          /\ given' = 0 .. (n - 1)
    /\ SemesterFrame

\* range.complement(), lines 173-175
ComplementRange ==
    /\ range' = complement(range)
    /\ given' = Levels \ given
    /\ SemesterFrame

NextSemester == ParseRange \/ AddLevel \/ ToLevel \/ ComplementRange

SpecSemester == InitSemester /\ [][NextSemester]_vars

---------------------------------------------------------------------------
(* normalize as a state machine: one action per pass of lines 23-26.       *)

\* the trees normalize is called on: the requirement trees over the
\* qualifications Q, and those trees below one more node, alone or beside a leaf
NormalizeInputs(Q) ==
    LET inner == TreesOver(Q)
    IN inner \cup
       {Conjunctive(c, <<t>>) : c \in {"all", "any"}, t \in inner} \cup
       {Conjunctive(c[1], <<t, Qualification(c[2])>>) : c \in {"all", "any"} \X Q, t \in inner}

\* line 22: the call normalize(tree)
InitNormalize ==
    /\ arg \in NormalizeInputs({NormalizeQuals[k] : k \in 1 .. Len(NormalizeQuals)})
    /\ ntree = arg
    /\ npc = "entry"
    /\ addends = <<>> /\ total = [called |-> FALSE, value |-> <<>>]
    /\ products = <<>>
    /\ OracleIdle /\ MinimizeIdle /\ BuilderIdle /\ AlgebraIdle /\ SemesterIdle

NormalizeFrame ==
    UNCHANGED <<products, oracleVars, minimizeVars, builderVars, algebraVars, semesterVars,
                restrictionVars, arg>>

\* line 23: let tree = equivalent(tree)
PassEquivalent ==
    /\ npc = "entry"
    /\ ntree' = equivalent(ntree)
    /\ npc' = "equivalent"
    /\ NormalizeFrame

\* line 24: let tree = flatten(tree)
PassFlatten ==
    /\ npc = "equivalent"
    /\ ntree' = normalize_flatten(ntree)
    /\ npc' = "flatten"
    /\ NormalizeFrame

\* line 25: let tree = exam_score_overlap(&tree)
PassExamScoreOverlap ==
    /\ npc = "flatten"
    /\ ntree' = exam_score_overlap(ntree)
    /\ npc' = "exam_score_overlap"
    /\ NormalizeFrame

\* lines 26-27: let tree = unbox_singlets(tree), the tree returned
PassUnboxSinglets ==
    /\ npc = "exam_score_overlap"
    /\ ntree' = unbox_singlets(ntree)
    /\ npc' = "unbox_singlets"
    /\ NormalizeFrame

NextNormalize == PassEquivalent \/ PassFlatten \/ PassExamScoreOverlap \/ PassUnboxSinglets

SpecNormalize == InitNormalize /\ [][NextNormalize]_vars

---------------------------------------------------------------------------
(* RegistrationRestrictions::add as a state machine: the one call.         *)

SemesterLevels == 1 .. LastLevel

\* the ranges SemesterRange::from_str builds: start up to end, a single level included
SemesterRanges == {r \in [start : SemesterLevels, end : SemesterLevels] : r.start <= r.end}

\* Option<SemesterRestriction>
SemesterRestrictions == {{}} \cup {{r} : r \in [tag : {"Must", "CannotBe"}, range : SemesterRanges]}

\* Default::default() of RegistrationRestrictions, line 16
default_restrictions ==
    [program_restrictions |-> {}, level_restrictions |-> {}, semester_restriction |-> {},
     override_required |-> FALSE, prerequisite_restrictions |-> {},
     informal_prerequisite |-> FALSE]

\* the restrictions that carry at most a semester restriction
SemesterOnly == {[default_restrictions EXCEPT !.semester_restriction = s] : s \in SemesterRestrictions}

\* the restrictions that carry no semester restriction
NoSemester ==
    [program_restrictions : {{}, {"BiologyGraduate"}, {"StemUndergraduate"}},
     level_restrictions : {{}, {"Graduate"}, {"Undergraduate"}},
     semester_restriction : {{}},
     override_required : BOOLEAN,
     prerequisite_restrictions : {{}, {Qualification("MATH 0090")}},
     informal_prerequisite : BOOLEAN]

InitRestrictions ==
    /\ addends \in [self : SemesterOnly, other : SemesterOnly] \cup
                    [self : NoSemester, other : NoSemester]
    /\ total = [called |-> FALSE, value |-> <<>>]
    /\ arg = <<>> /\ ntree = <<>> /\ npc = "idle"
    /\ products = <<>>
    /\ OracleIdle /\ MinimizeIdle /\ BuilderIdle /\ AlgebraIdle /\ SemesterIdle

\* self + other, lines 58-73
AddRestrictions ==
    /\ ~ total.called
    /\ total' = [called |-> TRUE, value |-> restrictions_add(addends.self, addends.other)]
    /\ UNCHANGED <<products, oracleVars, minimizeVars, builderVars, algebraVars, semesterVars,
                   normalizeVars, addends>>

NextRestrictions == AddRestrictions

SpecRestrictions == InitRestrictions /\ [][NextRestrictions]_vars

---------------------------------------------------------------------------
(* Products::minimize as a state machine: one action per iteration of the  *)
(* while loop of lines 249-251.                                            *)

\* the positions whose query holds in database P, named by their input index
FoundNow(P, org) ==
    {<<p[1], org[p[1]][p[2] + 1]>> : p \in {q \in Positions(P) : query(P, q[1], q[2])}}

\* the state in which minimize is called on one of the databases dbs
InitMinimizeOn(dbs) ==
    /\ products \in dbs
    /\ order \in KeyOrders(DOMAIN products)
    /\ pc = "idle" /\ iter = 0 /\ found = {} /\ runs = 0
    /\ input = products
    /\ origin = [s \in DOMAIN products |-> [k \in 1 .. Len(products[s]) |-> k - 1]]
    /\ everFound = {}
    /\ removed = <<>>
    /\ afterFirst = <<>>
    /\ OracleIdle
    /\ OtherIdle

InitMinimize == InitMinimizeOn(MinimizeDatabases)

\* a call products.minimize(), line 404, up to the first test of the while let;
\* MaxRuns bounds the calls made in a row
MinimizeCall ==
    /\ pc \in {"idle", "returned"}
    /\ runs < MaxRuns
    /\ pc' = "loop"
    /\ iter' = 0
    /\ found' = find_thingy(products, order)
    /\ runs' = runs + 1
    /\ everFound' = everFound \cup FoundNow(products, origin)
    /\ UNCHANGED <<products, order, input, origin, removed, afterFirst, oracleVars,
                   otherVars>>

\* lines 249-250: find_thingy returned Some((a, b)), clause b of a is removed and
\* find_thingy is called again
MinimizeIterate ==
    /\ pc = "loop"
    /\ loop_enters(found, iter)
    /\ \E t \in found :
          LET a == t[1]
              b == t[2]
          IN /\ products' = [products EXCEPT ![a] = vec_remove(products[a], b)]
             /\ origin' = [origin EXCEPT ![a] = vec_remove(origin[a], b)]
             /\ removed' = Append(removed, <<a, b, origin[a][b + 1]>>)
    /\ iter' = iter + 1
    /\ found' = find_thingy(products', order)
    /\ everFound' = everFound \cup FoundNow(products', origin')
    /\ UNCHANGED <<order, pc, runs, input, afterFirst, oracleVars, otherVars>>

\* line 249: the while let fails, minimize returns
MinimizeReturn ==
    /\ pc = "loop"
    /\ ~ loop_enters(found, iter)
    /\ pc' = "returned"
    /\ afterFirst' = IF runs = 1 THEN products ELSE afterFirst
    /\ UNCHANGED <<products, order, iter, found, runs, input, origin, everFound,
                   removed, oracleVars, otherVars>>

NextMinimize == MinimizeCall \/ MinimizeIterate \/ MinimizeReturn

SpecMinimize == InitMinimize /\ [][NextMinimize]_vars

\* databases of the shape of the test baz (lines 450-454): symbol 0 has up to
\* maxLen clauses over the other symbols, possibly several times the same one,
\* and the other symbols but the last all lead to the last, or none has an entry
DuplicateDatabases(maxLen) ==
    LET others == 1 .. NumSymbols
        clauses == {c \in SUBSET others : c # {} /\ Cardinality(c) <= MaxSumLen}
        heads == UNION {[1 .. n -> clauses] : n \in 1 .. maxLen}
    IN UNION {{[s \in {0} \cup K |-> IF s = 0 THEN h ELSE <<{NumSymbols}>>] : h \in heads} :
                K \in {{}, 1 .. (NumSymbols - 1)}}

InitDuplicates == InitMinimizeOn(DuplicateDatabases(MaxClauses))

SpecDuplicates == InitDuplicates /\ [][NextMinimize]_vars

\* databases with one long formula: symbol 0 has up to maxLen clauses of one
\* symbol each, 0 itself included, and symbol 1 has no entry or one clause of
\* one symbol
LongFormulaDatabases(maxLen) ==
    LET clauses == {{t} : t \in Symbols}
        heads == UNION {[1 .. n -> clauses] : n \in 1 .. maxLen}
        seconds == {<<{t}>> : t \in Symbols}
    IN {(0 :> h) : h \in heads} \cup {(0 :> h[1]) @@ (1 :> h[2]) : h \in heads \X seconds}

InitLongFormula == InitMinimizeOn(LongFormulaDatabases(MaxClauses + 1))

SpecLongFormula == InitLongFormula /\ [][NextMinimize]_vars

---------------------------------------------------------------------------
(* The function minimize of lines 393-412: build the database from the     *)
(* (node, tree) pairs with a fresh Visitor, minimize it, turn every        *)
(* formula back into a tree.  pc is "start", then as in Products::minimize,*)
(* then "done".                                                            *)

\* lines 400-402: the (symbol, product) pairs of the trees still to come, in order
RECURSIVE build_pairs(_, _)
build_pairs(trees, st) ==
    IF trees = <<>> THEN [pairs |-> <<>>, map |-> st.map, next |-> st.next]
    ELSE LET node == symbol(st, Head(trees).node)
             prod == into_product(Head(trees).tree, [map |-> node.map, next |-> node.next])
             rest == build_pairs(Tail(trees), [map |-> prod.map, next |-> prod.next])
         IN [pairs |-> <<<<node.symbol, prod.product>>>> \o rest.pairs,
             map |-> rest.map, next |-> rest.next]

\* collect into a HashMap: the last pair of a key wins
collect(pairs) ==
    [s \in {pairs[k][1] : k \in 1 .. Len(pairs)} |->
        pairs[CHOOSE k \in 1 .. Len(pairs) :
                /\ pairs[k][1] = s
                /\ \A j \in 1 .. Len(pairs) : pairs[j][1] = s => j <= k][2]]

\* line 405: the table turned around
inverse(m, s) == CHOOSE q \in DOMAIN m : m[q] = s

\* line 409: S::all over the clauses of S::any over the symbols of S::node
tree_of(product, m) ==
    Conjunctive("all",
        [k \in 1 .. Len(product) |->
            Conjunctive("any",
                LET syms == SortedSeq(product[k])
                IN [j \in 1 .. Len(syms) |-> Qualification(inverse(m, syms[j]))])])

\* requirement trees of the shape x op (y op (z op w)) over the qualifications B, C, D
ShapeTrees ==
    {Conjunctive(c[1], <<Qualification(q[1]),
        Conjunctive(c[2], <<Qualification(q[2]),
            Conjunctive(c[3], <<Qualification(q[3]), Qualification(q[4])>>)>>)>>) :
        c \in [1 .. 3 -> {"all", "any"}], q \in [1 .. 4 -> {"B", "C", "D"}]}

\* requirement trees that are a leaf or a node of two leaves, over A, B, C
PairTrees ==
    {Qualification(q) : q \in {"A", "B", "C"}} \cup
    {Conjunctive(c, <<Qualification(q[1]), Qualification(q[2])>>) :
        c \in {"all", "any"}, q \in [1 .. 2 -> {"A", "B", "C"}]}

\* the inputs of minimize: one tree of the first shape for A, or a tree of the
\* second shape for A and one for B
PipelineInputs ==
    {<<[node |-> "A", tree |-> t]>> : t \in ShapeTrees} \cup
    {<<[node |-> "A", tree |-> t[1]], [node |-> "B", tree |-> t[2]]>> :
        t \in PairTrees \X PairTrees}

InitPipeline ==
    /\ tree \in PipelineInputs
    /\ map = <<>> /\ next = 0
    /\ built = [by |-> "none", product |-> <<>>]
    /\ output = <<>> /\ calls = <<>>
    /\ products = <<>>
    /\ order = <<>> /\ pc = "start" /\ iter = 0 /\ found = {} /\ runs = 0
    /\ input = <<>> /\ origin = <<>> /\ everFound = {}
    /\ removed = <<>> /\ afterFirst = <<>>
    /\ OracleIdle /\ AlgebraIdle /\ SemesterIdle
    /\ NormalizeIdle /\ RestrictionIdle

\* lines 399-403: the database is built with a fresh visitor
BuildDatabase ==
    /\ pc = "start"
    /\ LET r == build_pairs(tree, [map |-> map, next |-> next])
       IN /\ products' = collect(r.pairs)
          /\ map' = r.map
          /\ next' = r.next
    /\ order' \in KeyOrders(DOMAIN products')
    /\ input' = products'
    /\ origin' = [s \in DOMAIN products' |-> [k \in 1 .. Len(products'[s]) |-> k - 1]]
    /\ pc' = "idle"
    /\ UNCHANGED <<iter, found, runs, everFound, removed, afterFirst>>
    /\ UNCHANGED <<tree, built, output, calls, oracleVars, algebraVars, semesterVars,
                   normalizeVars, restrictionVars>>

\* line 404: the one call products.minimize()
CallMinimize == runs = 0 /\ MinimizeCall

\* lines 405-411: the pairs (node, tree) returned
ReturnTrees ==
    /\ pc = "returned"
    /\ pc' = "done"
    /\ output' = [n \in {inverse(map, s) : s \in DOMAIN products} |->
                    tree_of(products[map[n]], map)]
    /\ UNCHANGED <<products, order, iter, found, runs, input, origin, everFound,
                   removed, afterFirst>>
    /\ UNCHANGED <<map, next, tree, built, calls, oracleVars, algebraVars, semesterVars,
                   normalizeVars, restrictionVars>>

NextPipeline ==
    BuildDatabase \/ CallMinimize \/ MinimizeIterate \/ MinimizeReturn \/ ReturnTrees

SpecPipeline == InitPipeline /\ [][NextPipeline]_vars

---------------------------------------------------------------------------
(* Claims about the oracle.                                                *)

Returned == result \in {"true", "false"}

\* the sets one substitution step leads to from candidate c
Substitutions(P, c) ==
    UNION {{(c \ {s}) \cup P[s][k] : k \in 1 .. Len(P[s])} : s \in c \cap DOMAIN P}

RECURSIVE Closure(_, _)
Closure(P, R) ==
    LET N == R \cup UNION {Substitutions(P, c) : c \in R}
    IN IF N = R THEN R ELSE Closure(P, N)

\* the sets reachable from l by zero or more substitution steps
Reachable(P, l) == Closure(P, {l})

\* C1: with no forbidden clause, implies(lhs, rhs, None) returns true if and
\* only if some set reachable from lhs by zero or more substitution steps is a
\* subset of rhs; the seen set, the validity pruning and the order in which
\* the heap pops never change the answer.
C1_ImpliesIffReachable ==
    (Returned /\ disallow = {}) =>
        ((result = "true") <=> (\E c \in Reachable(products, lhs) : c \subseteq rhs))

\* C1 witness: a search that returned true after several pops, before it had
\* visited every reachable set
C1_Witness ==
    /\ result = "true" /\ disallow = {} /\ pops >= 3
    /\ \E c \in Reachable(products, lhs) : c \notin seen

\* each distinct candidate set is pushed at most once: the sets pushed are the
\* sets seen, and every one of them is on the heap or was popped
C8_PushedOnce ==
    /\ \A c \in BagToSet(pushed) : CopiesIn(c, pushed) = 1
    /\ BagToSet(pushed) = seen
    /\ seen \subseteq Sums
    /\ pops + BagCardinality(heap) = Cardinality(seen)

\* C8: every call of implies terminates, also on a cyclic database: each
\* distinct candidate set is pushed on the worklist at most once, so the number
\* of pops is bounded by the number of distinct symbol sets (2^NumSymbols), and
\* a call that has not returned is never stuck: its heap is empty (it returns
\* false) or the heap has a top to pop. (Every action of the loop pops once or
\* returns, so the bound on pops bounds the length of a call.)
C8_OracleTerminates ==
    /\ C8_PushedOnce
    /\ pops <= Cardinality(Sums)
    /\ Returned \/ BagToSet(heap) = {} \/ heap_top(heap, rhs) # {}

\* C8 witness: a search on a cycle (every symbol of lhs leads back to itself)
\* that exhausted the worklist and returned false
C8_Witness ==
    /\ result = "false"
    /\ lhs # {}
    /\ \A s \in lhs : \E c \in Reachable(products, {s}) \ {{s}} :
            s \in UNION Substitutions(products, c)
    /\ pops >= 3

\* number of links from symbol s to the end of a chain database
RECURSIVE ChainDistance(_, _)
ChainDistance(P, s) ==
    IF s \notin DOMAIN P THEN 0
    ELSE 1 + ChainDistance(P, CHOOSE t \in P[s][1] : TRUE)

\* C9: in a chain s0->{s1}, ..., s(n-1)->{sn}, implies({si}, {sj}, None) is
\* true exactly when i <= j, i.e. when si is at least as far from the end of the
\* chain as sj.
C9_ChainCollapse ==
    Returned =>
        \A a \in lhs : \A b \in rhs :
            (result = "true") <=>
                (ChainDistance(products, a) >= ChainDistance(products, b))

\* C9 witness: implies({s0}, {sn}) returned true after walking the whole chain
C9_Witness ==
    /\ result = "true"
    /\ \E a \in lhs : ChainDistance(products, a) = ChainLen
    /\ \E b \in rhs : ChainDistance(products, b) = 0
    /\ pops = ChainLen + 1

\* C10: whenever lhs is a subset of rhs, implies returns true at the first pop,
\* without any substitution, whatever the database and the forbidden clause.
C10_SubsetBaseCase ==
    (lhs \subseteq rhs /\ Returned) =>
        /\ result = "true"
        /\ pops = 1
        /\ seen = {lhs}

\* C10 witness: lhs = rhs = {s} for a symbol with an entry, under a forbidden clause
C10_Witness ==
    /\ result = "true"
    /\ lhs = rhs
    /\ Cardinality(lhs) = 1
    /\ lhs \subseteq DOMAIN products
    /\ disallow # {}

\* the database P without the clauses at the positions of D
WithoutClauses(P, D) ==
    [s \in DOMAIN P |->
        LET keep == {k \in 1 .. Len(P[s]) : <<s, k - 1>> \notin D}
            nth(n) == CHOOSE k \in keep : Cardinality({j \in keep : j < k}) = n - 1
        IN [n \in 1 .. Cardinality(keep) |-> P[s][nth(n)]]]

\* the children of candidate cand by the substitutions other than the forbidden one
AllowedChildren(cand) ==
    {(cand \ {p[1]}) \cup products[p[1]][p[2] + 1] :
        p \in {q \in Positions(products) \ disallow : q[1] \in cand}}

\* C20: during implies(lhs, rhs, Some((s, i))) every candidate pushed, at the
\* first step and at every later one, is the child of the popped candidate by
\* a substitution other than (s, i), and every such child is pushed unless it
\* was seen before or holds a dead-end symbol; so the call returns true exactly
\* when rhs is reached by substitutions in the database without clause i of s.
C20_ForbiddenClause ==
    /\ [][(result = "running" /\ result' = "running" /\ pops' = pops + 1) =>
            \E cand \in heap_top(heap, rhs) :
                /\ cand \in seen
                /\ seen' \ seen \subseteq AllowedChildren(cand)
                /\ \A c \in AllowedChildren(cand) :
                      c \in seen' \/ \E x \in c : dead_end(products, rhs, x)]_vars
    /\ [](Returned =>
            ((result = "true") <=>
                (\E c \in Reachable(WithoutClauses(products, disallow), lhs) :
                    c \subseteq rhs)))

\* C20 witness: a search under a forbidden clause that returned false after
\* several pops, where the same search without the forbidden clause reaches rhs
\* only through that clause, used at a later step
C20_Witness ==
    /\ result = "false"
    /\ pops >= 2
    /\ \E d \in disallow : d[1] \notin lhs
    /\ \E c \in Reachable(products, lhs) : c \subseteq rhs

\* C21: in every state of the implies search, no candidate pushed on the
\* worklist after the initial one contains a symbol that is absent from rhs
\* and has no database entry.
C21_NoEntrySymbolPruned ==
    \A c \in BagToSet(pushed) \ {lhs} :
        ~ \E s \in c : s \notin rhs /\ ~ has_entry(products, s)

\* the orders the clauses of formula F may be written in
PermutationsOf(F) == {[k \in 1 .. Len(F) |-> F[o[k]]] : o \in KeyOrders(1 .. Len(F))}

\* the databases that differ from P only in the order of the clauses inside
\* the formulas
PermutedDatabases(P) ==
    {Q \in [DOMAIN P -> UNION {PermutationsOf(P[s]) : s \in DOMAIN P}] :
        \A s \in DOMAIN P : Q[s] \in PermutationsOf(P[s])}

\* C22: the result of implies(lhs, rhs, None) is the same on every database
\* that differs only in the order of the clauses inside the formulas:
\* 2->[{3},{0}] and 2->[{0},{3}] give the same answers, also on the cycle
\* 0->1->2->0 that has the exit 2->3.
C22_ClauseOrderIndependent ==
    (Returned /\ disallow = {}) =>
        \A Q \in PermutedDatabases(products) :
            implies(Q, lhs, rhs, {}) <=> (result = "true")

\* C22 witness: implies({0}, {3}) returned true on the cycle with the exit, of
\* the test quoo1 or quoo2, each the other with the clauses of 2 exchanged
C22_Witness ==
    /\ products \in {Quoo1, Quoo2}
    /\ PermutedDatabases(products) = {Quoo1, Quoo2}
    /\ lhs = {0} /\ rhs = {3}
    /\ result = "true"
    /\ pops >= 4

---------------------------------------------------------------------------
(* Claims about minimize.                                                  *)

\* the assignments over Symbols, each the set of symbols it makes true
Assignments == SUBSET Symbols

\* a formula is the AND of its clauses, a clause the OR of its symbols
Satisfies(v, F) == \A k \in 1 .. Len(F) : F[k] \cap v # {}

\* the database read as implications: every key that holds has its formula hold
SatisfiesAll(v, P) == \A s \in DOMAIN P : s \in v => Satisfies(v, P[s])

\* the clauses of formula F that do not mention symbol s, in order
RECURSIVE WithoutSelf(_, _)
WithoutSelf(F, s) ==
    IF F = <<>> THEN <<>>
    ELSE (IF s \in Head(F) THEN <<>> ELSE <<Head(F)>>) \o WithoutSelf(Tail(F), s)

\* C2 as stated: the formula left by minimize has exactly the satisfying
\* assignments of the input formula of the same symbol.
C2_FormulaEquivalent ==
    pc = "returned" =>
        \A s \in DOMAIN products : \A v \in Assignments :
            Satisfies(v, products[s]) <=> Satisfies(v, input[s])

\* C2 as amended: among the assignments that satisfy the database read as
\* implications (every key implies its formula), the formula left by minimize
\* for a symbol s has exactly the satisfying assignments of the clauses of the
\* input formula of s that do not mention s itself; and the database left by
\* minimize is satisfied by exactly the assignments that satisfy the input one.
C2_EquivalentUnderDatabase ==
    pc = "returned" =>
        \A v \in Assignments :
            /\ SatisfiesAll(v, products) <=> SatisfiesAll(v, input)
            /\ SatisfiesAll(v, products) =>
                \A s \in DOMAIN products :
                    Satisfies(v, products[s]) <=> Satisfies(v, WithoutSelf(input[s], s))

\* C2 witness: minimize returned after removing a clause that does not mention
\* its own symbol, so that the formula alone is no longer equivalent
C2_Witness ==
    /\ pc = "returned"
    /\ \E k \in 1 .. Len(removed) :
          removed[k][1] \notin input[removed[k][1]][removed[k][3] + 1]
    /\ \E s \in DOMAIN products : \E v \in Assignments :
          Satisfies(v, products[s]) /\ ~ Satisfies(v, input[s])

\* the positions of the database whose query holds now
NoQueryHolds == \A p \in Positions(products) : ~ query(products, p[1], p[2])

\* the input indices of the clauses that survive in the formula of s
Surviving(s) == {origin[s][k] : k \in 1 .. Len(origin[s])}

\* C3 as stated: when minimize returns no query holds, and every clause for
\* which the query held at some point has been dropped.
C3_EveryFoundDropped ==
    pc = "returned" =>
        /\ NoQueryHolds
        /\ \A f \in everFound : f[2] \notin Surviving(f[1])

\* C3 as amended: when minimize returns no query holds; every clause removed
\* was one for which the query held, and was dropped whole (the survivors are
\* unchanged clauses of the input); a clause for which the query held only in
\* an earlier state of the database may survive.
C3_FixedPoint ==
    pc = "returned" =>
        /\ NoQueryHolds
        /\ \A k \in 1 .. Len(removed) :
              /\ <<removed[k][1], removed[k][3]>> \in everFound
              /\ removed[k][3] \notin Surviving(removed[k][1])
        /\ \A s \in DOMAIN products :
              products[s] = [k \in 1 .. Len(origin[s]) |-> input[s][origin[s][k] + 1]]

\* C3 witness: minimize returned after a removal, and a clause whose query held
\* before that removal survives
C3_Witness ==
    /\ pc = "returned"
    /\ removed # <<>>
    /\ \E f \in everFound : f[2] \in Surviving(f[1])

\* C4: when minimize returns no clause contains two distinct members a and b
\* with implies({a}, {b}) true.
C4_NoImpliedMember ==
    pc = "returned" =>
        \A s \in DOMAIN products : \A k \in 1 .. Len(products[s]) :
            \A a, b \in products[s][k] :
                a # b => ~ implies(products, {a}, {b}, {})

\* C5: a second run of minimize on the result of the first removes nothing.
C5_Idempotent ==
    (pc = "returned" /\ runs >= 2) => (products = afterFirst /\ iter = 0)

\* C5 witness: the second run returned, after a first run that removed clauses
C5_Witness ==
    /\ pc = "returned" /\ runs = 2
    /\ Len(removed) >= 2
    /\ products # input

\* number of symbols of a formula, counted with repetition over its clauses
RECURSIVE SymbolCount(_)
SymbolCount(F) ==
    IF F = <<>> THEN 0 ELSE Cardinality(Head(F)) + SymbolCount(Tail(F))

\* the formulas of database Q are no larger than those of database P
NoLarger(Q, P) ==
    /\ DOMAIN Q = DOMAIN P
    /\ \A s \in DOMAIN P :
          /\ Len(Q[s]) <= Len(P[s])
          /\ SymbolCount(Q[s]) <= SymbolCount(P[s])

\* C6: in every state reached during minimize, the clause count and the total
\* symbol count of every formula are at most their values in the previous
\* state and in the input database.
C6_MonotonicShrink ==
    /\ [](NoLarger(products, input))
    /\ [][NoLarger(products', products)]_vars

\* C6 witness: a formula that has lost clauses and symbols
C6_Witness ==
    /\ pc = "loop"
    /\ iter >= 2
    /\ \E s \in DOMAIN products :
          /\ Len(products[s]) < Len(input[s])
          /\ SymbolCount(products[s]) < SymbolCount(input[s])

\* C7: the database produced by minimize is the same whatever the iteration
\* order of the keys.
C7_OrderIndependent ==
    (pc = "returned" /\ runs = 1) =>
        \A o \in KeyOrders(DOMAIN input) : minimize_run(input, o, 0) = products

\* the sequence F is the sequence G with some of its elements left out
RECURSIVE IsSubsequence(_, _)
IsSubsequence(F, G) ==
    IF F = <<>> THEN TRUE
    ELSE IF G = <<>> THEN FALSE
    ELSE IF Head(F) = Head(G) THEN IsSubsequence(Tail(F), Tail(G))
    ELSE IsSubsequence(F, Tail(G))

\* number of empty clauses of a formula
EmptyCount(F) == Cardinality({k \in 1 .. Len(F) : F[k] = {}})

\* C15: in every state reached during minimize, every formula consists of
\* clauses of the input formula of its symbol, unchanged and in their order,
\* so that every empty clause was an empty clause of the input and no
\* non-empty clause has been turned into an empty one.
C15_NoEmptyClauseIntroduced ==
    \A s \in DOMAIN products :
        /\ IsSubsequence(products[s], input[s])
        /\ EmptyCount(products[s]) <= EmptyCount(input[s])

\* C15 witness: minimize has removed a non-empty clause from a formula that
\* still holds an empty clause
C15_Witness ==
    /\ pc = "returned"
    /\ \E k \in 1 .. Len(removed) :
          /\ input[removed[k][1]][removed[k][3] + 1] # {}
          /\ EmptyCount(products[removed[k][1]]) >= 1

\* the databases P and Q differ by the removal of clause b of symbol a
RemovalAt(P, Q, a, b) ==
    /\ DOMAIN Q = DOMAIN P
    /\ Len(Q[a]) = Len(P[a]) - 1
    /\ \A k \in 1 .. Len(Q[a]) : Q[a][k] = P[a][IF k <= b THEN k ELSE k + 1]
    /\ \A s \in DOMAIN P \ {a} : Q[s] = P[s]

\* C19: every step of minimize that changes the database removes exactly one
\* clause, (a, b), and implies({a}, clause, forbidden = (a, b)) holds in the
\* database as it is at that step, after all earlier removals; the removal
\* recorded is that one.
C19_RemovalRevalidated ==
    [][products' # products =>
          /\ Len(removed') = Len(removed) + 1
          /\ LET a == removed'[Len(removed')][1]
                 b == removed'[Len(removed')][2]
             IN /\ a \in DOMAIN products
                /\ b < Len(products[a])
                /\ RemovalAt(products, products', a, b)
                /\ implies(products, {a}, products[a][b + 1], {<<a, b>>})]_vars

\* C19 witness: minimize returned after two removals, and a clause survives
\* whose query held in the input database: answered again after the removals
\* it no longer holds, and the clause was kept
C19_Witness ==
    /\ pc = "returned"
    /\ Len(removed) >= 2
    /\ \E s \in DOMAIN products : \E i \in Surviving(s) :
          implies(input, {s}, input[s][i + 1], {<<s, i>>})

\* C23: minimize changes the database only by deleting whole clauses: in
\* every state the keys are the keys of the input (a key whose formula lost all
\* its clauses is kept with an empty formula), and every formula consists of
\* clauses of the input formula of its symbol, each equal to the input clause
\* it comes from, in their original relative order.
C23_MinimizeFrame ==
    /\ DOMAIN products = DOMAIN input
    /\ \A s \in DOMAIN input :
          /\ IsSubsequence(products[s], input[s])
          /\ Len(origin[s]) = Len(products[s])
          /\ \A k \in 1 .. Len(products[s]) :
                /\ origin[s][k] < Len(input[s])
                /\ products[s][k] = input[s][origin[s][k] + 1]
          /\ \A j, k \in 1 .. Len(origin[s]) : j < k => origin[s][j] < origin[s][k]

\* C23 witness: minimize returned with a key whose formula lost all its
\* clauses, and a formula that lost a clause in front of two survivors
C23_Witness ==
    /\ pc = "returned"
    /\ \E s \in DOMAIN products : input[s] # <<>> /\ products[s] = <<>>
    /\ \E s \in DOMAIN products :
          /\ Len(products[s]) >= 2
          /\ origin[s][1] > 0
          /\ products[s][1] # products[s][2]

\* the symbols written to stderr during minimize.  The only statement that
\* writes is the eprintln of line 302, "(cand) (rhs)", reached when implies
\* returns true: find_thingy stops at the first query that holds, so every
\* removal has printed one line, with rhs the clause removed and cand a subset
\* of it
stderr_symbols == UNION {input[removed[k][1]][removed[k][3] + 1] : k \in 1 .. Len(removed)}

\* C25: an empty clause of a symbol's formula is never removed silently: when
\* minimize returns either the formula still holds its empty clauses or a
\* diagnostic naming the symbol has been written, and no query holds in the
\* database left.
C25_EmptyClauseReported ==
    pc = "returned" =>
        /\ \A s \in DOMAIN input :
              EmptyCount(products[s]) < EmptyCount(input[s]) => s \in stderr_symbols
        /\ NoQueryHolds

\* C26: reading the database as the conjunction, over every key s, of
\* "s implies the AND of the clauses of s's formula, each the OR of its
\* symbols", the assignments that satisfy the database are the same in every
\* state reached during minimize as in the input database.
C26_DatabaseEquivalent ==
    \A v \in Assignments : SatisfiesAll(v, products) <=> SatisfiesAll(v, input)

\* C26 witness: minimize in the middle of its loop, a clause that does not
\* mention its own symbol removed and another removal pending, on a database
\* that some assignments satisfy and some do not
C26_Witness ==
    /\ pc = "loop"
    /\ found # {}
    /\ \E k \in 1 .. Len(removed) :
          removed[k][1] \notin input[removed[k][1]][removed[k][3] + 1]
    /\ \E v, w \in Assignments : SatisfiesAll(v, input) /\ ~ SatisfiesAll(w, input)

\* the clauses of formula F that mention symbol s
SelfClauses(F, s) == {k \in 1 .. Len(F) : s \in F[k]}

\* C27: a symbol's formula is empty when minimize returns if and only if every
\* clause of its input formula contains the symbol itself (an empty input
\* formula included); in every state a formula whose input has a clause that
\* does not mention its own symbol still holds such a clause; and the removal
\* of a formula's sole clause is only ever found for a clause that contains the
\* formula's own symbol.
C27_ZeroClauseCharacterisation ==
    /\ pc = "returned" =>
          \A s \in DOMAIN input :
              (products[s] = <<>>) <=> (SelfClauses(input[s], s) = 1 .. Len(input[s]))
    /\ \A s \in DOMAIN input :
          SelfClauses(input[s], s) # 1 .. Len(input[s]) =>
              SelfClauses(products[s], s) # 1 .. Len(products[s])
    /\ \A t \in found :
          (pc = "loop" /\ Len(products[t[1]]) = 1) => t[1] \in products[t[1]][1]

\* C27 witness: minimize returned; one formula of several clauses, all
\* mentioning its symbol, is empty, and another lost the clause that mentions
\* its symbol and kept the one that does not
C27_Witness ==
    /\ pc = "returned"
    /\ \E s \in DOMAIN input : Len(input[s]) >= 2 /\ products[s] = <<>>
    /\ \E s \in DOMAIN input :
          /\ SelfClauses(input[s], s) # {}
          /\ Len(products[s]) = 1
          /\ s \notin products[s][1]

\* C28: the loop of minimize terminates: every iteration removes exactly one
\* clause from exactly one formula, the clause find_thingy named, so the clauses
\* left and the removals made add up to the clauses of the input, and the
\* number of iterations of a call never exceeds the number of clauses of the
\* input database.
C28_MinimizeTerminates ==
    /\ [](/\ iter <= TotalClauses(input)
          /\ TotalClauses(products) + Len(removed) = TotalClauses(input)
          /\ \A t \in found : pc = "loop" =>
                t[1] \in DOMAIN products /\ t[2] < Len(products[t[1]]))
    /\ [][(pc = "loop" /\ pc' = "loop") =>
            /\ iter' = iter + 1
            /\ TotalClauses(products') = TotalClauses(products) - 1
            /\ \E a \in DOMAIN products :
                  /\ Len(products'[a]) = Len(products[a]) - 1
                  /\ \A s \in DOMAIN products \ {a} : products'[s] = products[s]]_vars

\* C28 witness: a call that returned after as many iterations as the input
\* database has clauses
C28_Witness ==
    /\ pc = "returned"
    /\ runs = 1
    /\ iter = TotalClauses(input)
    /\ iter = MaxTotal
    /\ Cardinality(DOMAIN input) >= 2

\* the database 0->[{1,2}], 1->[{3}], 2->[{3}] with n copies of the clause {1,2}
BazWithCopies(n) == (0 :> [k \in 1 .. n |-> {1, 2}]) @@ (1 :> <<{3}>>) @@ (2 :> <<{3}>>)

\* C17: when minimize returns no formula holds, at two different positions,
\* clauses c1 and c2 with c1 a subset of or equal to c2; of the two copies of
\* {1,2} in 0->[{1,2},{1,2}], 1->[{3}], 2->[{3}] exactly one remains, and the
\* single clause {1,2} of 0->[{1,2}], 1->[{3}], 2->[{3}] is kept.
C17_NoSubsumedClause ==
    pc = "returned" =>
        /\ \A s \in DOMAIN products : \A j, k \in 1 .. Len(products[s]) :
              j # k => ~ (products[s][j] \subseteq products[s][k])
        /\ input = BazWithCopies(2) => products = BazWithCopies(1)
        /\ input = BazWithCopies(1) => products = BazWithCopies(1)

\* C17 witness: minimize returned on the database with two copies of {1,2}
C17_Witness ==
    /\ pc = "returned"
    /\ input = BazWithCopies(2)
    /\ Len(products[0]) = 1
    /\ Len(removed) = 1

---------------------------------------------------------------------------
(* Claims about the combinators.                                           *)

\* C12: for all formulas a and b, a | b has exactly |a| * |b| clauses, and its
\* clause at position i * |b| + j is the union of clause i of a and clause j
\* of b; [{1,2}] | [{2,3,4}] is [{1,2,3,4}].
C12_OrDistribution ==
    outcome.op = "or" =>
        LET a == operands.a
            b == operands.b
            r == outcome.value
        IN /\ Len(r) = Len(a) * Len(b)
           /\ \A i \in 0 .. (Len(a) - 1) : \A j \in 0 .. (Len(b) - 1) :
                 r[i * Len(b) + j + 1] = a[i + 1] \cup b[j + 1]
           /\ operands = DistributionExample => r = <<{1, 2, 3, 4}>>

\* C12 witness: two operands of two clauses each whose four unions are four
\* different clauses, so that every position of the result is told apart
C12_Witness ==
    /\ outcome.op = "or"
    /\ Len(operands.a) = 2 /\ Len(operands.b) = 2
    /\ Cardinality({outcome.value[k] : k \in 1 .. 4}) = 4

\* C13: for every formula p, and_identity & p = p & and_identity = p and
\* or_identity | p = p | or_identity = p, clause for clause in the same order;
\* and_identity has no clause, or_identity exactly one, empty, clause.
C13_IdentityLaws ==
    /\ (outcome.op = "and" /\ operands.a = and_identity) => outcome.value = operands.b
    /\ (outcome.op = "and" /\ operands.b = and_identity) => outcome.value = operands.a
    /\ (outcome.op = "or" /\ operands.a = or_identity) => outcome.value = operands.b
    /\ (outcome.op = "or" /\ operands.b = or_identity) => outcome.value = operands.a
    /\ Len(and_identity) = 0
    /\ Len(or_identity) = 1 /\ \A k \in 1 .. Len(or_identity) : or_identity[k] = {}

\* C13 witness: or_identity | p for a formula p of two different clauses
C13_Witness ==
    /\ outcome.op = "or"
    /\ operands.a = <<{}>>
    /\ Len(operands.b) = 2 /\ operands.b[1] # operands.b[2]
    /\ outcome.value = operands.b

---------------------------------------------------------------------------
(* Claims about the builders and the symbol table.                         *)

\* a requirement tree under assignment v of the symbols, a leaf read through
\* the symbol table m
RECURSIVE TreeHolds(_, _, _)
TreeHolds(t, v, m) ==
    IF t.kind = "leaf" THEN m[t.q] \in v
    ELSE IF t.kind = "all"
         THEN \A k \in 1 .. Len(t.children) : TreeHolds(t.children[k], v, m)
         ELSE \E k \in 1 .. Len(t.children) : TreeHolds(t.children[k], v, m)

\* C11: for every requirement tree of bounded depth and width (leaves, All
\* and Any nodes, also with no or one child) the formula built by
\* from_prereq_tree and by visit_node / visit_all / visit_any is satisfied by
\* exactly the assignments of the symbols that satisfy the tree; a leaf gives
\* one clause of one symbol, an All without children the empty formula, an
\* Any without children the formula of one empty clause.
C11_BuilderCorrect ==
    built.by # "none" =>
        /\ \A v \in SUBSET (1 .. next) :
              Satisfies(v, built.product) <=> TreeHolds(tree, v, map)
        /\ tree.kind = "leaf" => built.product = <<{map[tree.q]}>>
        /\ (tree.kind = "all" /\ tree.children = <<>>) => built.product = <<>>
        /\ (tree.kind = "any" /\ tree.children = <<>>) => built.product = <<{}>>

\* C11 witness: an Any of two All nodes of two different leaves each, built
\* into four clauses
C11_Witness ==
    /\ built.by = "from_prereq_tree"
    /\ tree.kind = "any" /\ Len(tree.children) = 2
    /\ \A k \in 1 .. 2 :
          /\ tree.children[k].kind = "all"
          /\ Len(tree.children[k].children) = 2
          /\ tree.children[k].children[1] # tree.children[k].children[2]
    /\ Len(built.product) = 4

\* the table is a bijection from the qualifications seen to 1 .. next, and every
\* call returned what the table holds
TableConsistent ==
    /\ \A p, q \in DOMAIN map : map[p] = map[q] => p = q
    /\ {map[q] : q \in DOMAIN map} = 1 .. next
    /\ \A i \in 1 .. Len(calls) :
          /\ calls[i].q \in DOMAIN map
          /\ calls[i].symbol = map[calls[i].q]
          /\ calls[i].known => calls[i].after = calls[i].before
    /\ \A i, j \in 1 .. Len(calls) :
          (calls[i].q = calls[j].q) <=> (calls[i].symbol = calls[j].symbol)

\* C14: after any sequence of calls of symbol on one table the same
\* qualification always maps to the same symbol, different qualifications map
\* to different symbols, a call for a known qualification leaves the table
\* and the counter unchanged, the counter never decreases, and the symbols
\* handed out are exactly 1 .. next.
C14_SymbolTable ==
    /\ []TableConsistent
    /\ [][/\ next' >= next
          /\ \A q \in DOMAIN map : q \in DOMAIN map' /\ map'[q] = map[q]
          /\ (Len(calls') > Len(calls) /\ calls'[Len(calls')].known) =>
                (map' = map /\ next' = next)]_vars

\* C14 witness: the same qualification asked for twice, after a builder has
\* handed out two other symbols
C14_Witness ==
    /\ Len(calls) = 2
    /\ calls[1].q = calls[2].q
    /\ calls[1].symbol = 3 /\ calls[2].symbol = 3
    /\ built.by # "none"
    /\ next = 3

\* the input {A: All[B, Any[C, All[B, D]]]}
ScenarioInput ==
    <<[node |-> "A",
       tree |-> Conjunctive("all", <<Qualification("B"),
                    Conjunctive("any", <<Qualification("C"),
                        Conjunctive("all", <<Qualification("B"), Qualification("D")>>)>>)>>)]>>

\* C16 as stated: building the database from {A: All[B, Any[C, All[B, D]]]} and
\* minimizing it leaves the single clause {B} as the formula of A; the output
\* is {A: All[B]}.
C16_ScenarioAllB ==
    (pc = "done" /\ tree = ScenarioInput) =>
        /\ products[map["A"]] = <<{map["B"]}>>
        /\ Len(output["A"].children) = 1

\* C16 as amended: building the database from {A: All[B, Any[C, All[B, D]]]}
\* gives A the clauses {B}, {B, C}, {C, D}; minimizing it leaves the two clauses
\* {B} and {C, D}, and the output is {A: All[Any[B], Any[C, D]]}.
C16_ScenarioBAndCOrD ==
    /\ (pc \notin {"start", "done"} /\ tree = ScenarioInput) =>
          input = (map["A"] :> <<{map["B"]}, {map["B"], map["C"]}, {map["C"], map["D"]}>>)
    /\ (pc = "done" /\ tree = ScenarioInput) =>
          /\ products = (map["A"] :> <<{map["B"]}, {map["C"], map["D"]}>>)
          /\ output = ("A" :> Conjunctive("all",
                <<Conjunctive("any", <<Qualification("B")>>),
                  Conjunctive("any", <<Qualification("C"), Qualification("D")>>)>>))

\* C16 witness: minimize returned the trees for that input, after one removal
C16_Witness ==
    /\ pc = "done"
    /\ tree = ScenarioInput
    /\ Len(removed) = 1
    /\ DOMAIN output = {"A"}

\* C24: when a symbol's formula minimizes to zero clauses, minimize emits
\* that name with an absent requirement, not with a requirement tree.
C24_VacuousIsAbsent ==
    pc = "done" =>
        \A s \in DOMAIN products :
            products[s] = <<>> =>
                LET n == inverse(map, s)
                IN n \notin DOMAIN output \/ output[n].kind \notin {"leaf", "all", "any"}

---------------------------------------------------------------------------
(* Claims about normalize.                                                 *)

\* no node of tree t has a child of its own kind, and none has exactly one child
RECURSIVE Flattened(_)
Flattened(t) ==
    \/ t.kind = "leaf"
    \/ /\ Len(t.children) # 1
       /\ \A k \in 1 .. Len(t.children) :
             t.children[k].kind # t.kind /\ Flattened(t.children[k])

\* C29: the tree returned by normalize has no All node with an All node as a
\* direct child, no Any node with an Any node as a direct child, and no node
\* with exactly one child.
C29_NormalizeFlattened == npc = "unbox_singlets" => Flattened(ntree)

---------------------------------------------------------------------------
(* Claims about RegistrationRestrictions.                                  *)

\* the semester restriction sem, an Option, admits level l
Admits(sem, l) ==
    \A r \in sem :
        IF r.tag = "Must" THEN r.range.start <= l /\ l <= r.range.end
        ELSE ~ (r.range.start <= l /\ l <= r.range.end)

\* C30: add combines its operands into the most restrictive: when at least one
\* operand carries a semester restriction the sum carries one, the sum admits
\* no level that the restriction of either operand excludes, and for two Must
\* ranges that share levels, a single level included, the sum is the Must
\* range of the shared levels.
C30_MostRestrictive ==
    total.called =>
        LET s == addends.self.semester_restriction
            o == addends.other.semester_restriction
            sum == total.value.semester_restriction
        IN /\ (s # {} \/ o # {}) => sum # {}
           /\ \A l \in SemesterLevels : Admits(sum, l) => (Admits(s, l) /\ Admits(o, l))
           /\ \A x \in s : \A y \in o :
                 (/\ x.tag = "Must" /\ y.tag = "Must"
                  /\ \E l \in SemesterLevels : Admits(s, l) /\ Admits(o, l)) =>
                     sum = {[tag |-> "Must",
                             range |-> [start |-> IF x.range.start >= y.range.start
                                                  THEN x.range.start ELSE y.range.start,
                                        end |-> IF x.range.end <= y.range.end
                                                THEN x.range.end ELSE y.range.end]]}

---------------------------------------------------------------------------
(* Claims about SemesterRange.                                             *)

\* the text "l1, l2, ..." of the levels of the set S in ascending order
LevelsText(S) ==
    JoinText(SortedSeq(S), [k \in 1 .. (Cardinality(S) - 1) |-> <<",", " ">>])

\* C18: a SemesterRange behaves as a set over the 15 levels 01 .. 13, GM, GP:
\* built by parsing a list of levels, by repeated add, by to(n) or by
\* complement, it lists through semesters() and through Display exactly the
\* distinct levels it was built from (for to(n) the first n levels, for
\* complement the levels of the universe not in the range), each once and in
\* ascending order; the complement of 05 .. 13 is 01, 02, 03, 04, GM, GP.
C18_SemesterRangeIsSet ==
    /\ range < 2 ^ NumLevels
    /\ semesters(range) = SortedSeq(given)
    /\ range_display(range) = LevelsText(given)
    /\ given = 4 .. 12 =>
          range_display(complement(range)) =
              <<"0", "1", ",", " ", "0", "2", ",", " ", "0", "3", ",", " ", "0", "4",
                ",", " ", "G", "M", ",", " ", "G", "P">>

\* C18 witness: the range of the levels 01, 02, 03, 04, GM, GP, which no to(n)
\* gives: the complement of 05 .. 13, or those levels added one by one
C18_Witness ==
    /\ given = {0, 1, 2, 3, 13, 14}
    /\ Len(semesters(range)) = 6
    /\ complement(range) = try_from(JoinText(TestLevels,
            [k \in 1 .. 8 |-> IF k = 8 THEN <<" ", "o", "r", " ">> ELSE <<",", " ">>]))

===========================================================================
